---- MODULE Spec2Model ----
(***************************************************************************)
(* PigeonKeeper: a scheduler that runs the services bound to the vertices  *)
(* of a digraph, respecting the edges, a cap on the number of running      *)
(* processes and a failure policy.  The model follows lib/pigeonkeeper.js, *)
(* lib/digraph.js and lib/vertex.js.                                       *)
(*                                                                         *)
(* Vertex ids are the integers 1..n in the order of their addVertex calls. *)
(* An edge is the pair startVertexIdArray[i] -> endVertexIdArray[i].       *)
(***************************************************************************)
EXTENDS Integers, Sequences, FiniteSets, TLC

\* Bounds of the model
MaxVertices == 3
MaxEdges == 3
MaxConcurrent == 2

VALID_STATES == <<"NOT_READY", "READY", "IN_PROGRESS", "SUCCESS", "FAIL">>

\* What an out-of-range read of a JS array yields; it is the id of no vertex
UndefinedId == 0

VARIABLES
    vertexIdArray,                  \* Digraph: ids of the vertices, in insertion order
    startVertexIdArray,             \* Digraph: where edge i starts
    endVertexIdArray,               \* Digraph: where edge i ends
    vertexState,                    \* Vertex.state, by vertex id
    finalCallbackExecuted,          \* PigeonKeeper
    quitOnFailure,                  \* PigeonKeeper
    isCurrentlyRunning,             \* PigeonKeeper
    maxNumberOfRunningProcesses,    \* PigeonKeeper
    numberOfRunningProcesses,       \* PigeonKeeper
    topologicalSortOrder,           \* PigeonKeeper: computed by start
    startListeners,                 \* vertices whose once(":start") listener is still registered
    successListeners,               \* vertices whose service still has its once("success") listener
    errorListeners,                 \* vertices whose service still has its once("error") listener
    serviceStartCalls,              \* by vertex id: how often serviceStart was invoked
    earlyStarts,                    \* vertices whose serviceStart was invoked while a parent was not SUCCESS
    startedInCampaign,              \* vertices whose serviceStart was invoked since the last start
    stateChanges,                   \* the pairs <<old, new>> of the state changes made since start
    emitted,                        \* by vertex id: the events its service has emitted
    vertexData,                     \* by vertex id: the data field of the Vertex
    serviceData,                    \* by vertex id: the data field of the service object
    finalCallbackCalls,             \* the invocations of finalCallback since the last start
    pc,                             \* "constructed" until start is called, then "started"
    lastCall,                       \* the name of the last call made, "new" after construction
    thrown                          \* the Error the last call threw, "none" when it returned

vars == <<vertexIdArray, startVertexIdArray, endVertexIdArray, vertexState,
          finalCallbackExecuted, quitOnFailure, isCurrentlyRunning,
          maxNumberOfRunningProcesses, numberOfRunningProcesses, topologicalSortOrder,
          startListeners, successListeners, errorListeners, serviceStartCalls,
          earlyStarts, startedInCampaign, stateChanges, emitted, vertexData, serviceData,
          finalCallbackCalls, pc, lastCall, thrown>>

graphVars == <<vertexIdArray, startVertexIdArray, endVertexIdArray>>
configVars == <<quitOnFailure, maxNumberOfRunningProcesses>>
dataVars == <<vertexData, serviceData>>

\* the data addVertex gives a new Vertex ({}), the data field of a service that
\* was never assigned one, and the data a service emits with "success"
EmptyData == "{}"
NoData == "undefined"
Payload == "data"

-----------------------------------------------------------------------------
(* Digraph *)

ValidStateSet == {VALID_STATES[i] : i \in 1..Len(VALID_STATES)}

hasVertexId(vertexId) == \E i \in 1..Len(vertexIdArray) : vertexIdArray[i] = vertexId

getVertexIds == vertexIdArray

vertexCount == Len(vertexIdArray)

VertexIdSet == {vertexIdArray[i] : i \in 1..Len(vertexIdArray)}

\* getVertex throws "Vertex Not Found" for an id that is not in vertexIdArray
getVertexThrows(vertexId) == ~hasVertexId(vertexId)

indegree(sv, ev, vertexId) == Cardinality({i \in 1..Len(ev) : ev[i] = vertexId})

getParentVertexIds(sv, ev, childVertexId) ==
    LET f[i \in 0..Len(ev)] ==
            IF i = 0 THEN <<>>
            ELSE IF ev[i] = childVertexId THEN Append(f[i-1], sv[i]) ELSE f[i-1]
    IN f[Len(ev)]

getChildVertexIds(sv, ev, parentVertexId) ==
    LET f[i \in 0..Len(sv)] ==
            IF i = 0 THEN <<>>
            ELSE IF sv[i] = parentVertexId THEN Append(f[i-1], ev[i]) ELSE f[i-1]
    IN f[Len(sv)]

getVerticesWithIndegree0(ev) ==
    LET f[i \in 0..Len(vertexIdArray)] ==
            IF i = 0 THEN <<>>
            ELSE IF \A j \in 1..Len(ev) : ev[j] # vertexIdArray[i]
                 THEN Append(f[i-1], vertexIdArray[i]) ELSE f[i-1]
    IN f[Len(vertexIdArray)]

\* index of the first edge (s, e), 0 when there is none
edgeIndex(sv, ev, s, e) ==
    LET hits == {i \in 1..Len(sv) : sv[i] = s /\ ev[i] = e}
    IN IF hits = {} THEN 0 ELSE CHOOSE i \in hits : \A j \in hits : i <= j

splice1(arr, i) == SubSeq(arr, 1, i - 1) \o SubSeq(arr, i + 1, Len(arr))

\* Variant of removeEdge: the edge is searched by its start vertex alone
removeEdge_byStartOnly(sv, ev, s, e) ==
    LET hits == {i \in 1..Len(sv) : sv[i] = s}
        i == IF hits = {} THEN 0 ELSE CHOOSE k \in hits : \A j \in hits : k <= j
    IN IF i = 0 THEN [sv |-> sv, ev |-> ev, threw |-> TRUE]
       ELSE [sv |-> splice1(sv, i), ev |-> splice1(ev, i), threw |-> FALSE]

\* removeEdge on the arrays (sv, ev); threw is TRUE when the edge does not exist
removeEdge(sv, ev, s, e) ==
    LET i == edgeIndex(sv, ev, s, e)
    IN IF i = 0 THEN [sv |-> sv, ev |-> ev, threw |-> TRUE]
       ELSE [sv |-> splice1(sv, i), ev |-> splice1(ev, i), threw |-> FALSE]

clone(arr) == [i \in 1..Len(arr) |-> arr[i]]

getEdgeInfo(sv, ev) == [startVertexIdArray |-> clone(sv), endVertexIdArray |-> clone(ev)]

\* the for loop of topologicalSort over the children of n, from child i on
RECURSIVE removeChildEdges(_, _, _, _)
removeChildEdges(w, n, childNodes, i) ==
    IF i > Len(childNodes) THEN w
    ELSE LET m == childNodes[i]
             r == removeEdge(w.sv, w.ev, n, m)
             S1 == IF indegree(r.sv, r.ev, m) = 0 THEN Append(w.S, m) ELSE w.S
         IN removeChildEdges([w EXCEPT !.sv = r.sv, !.ev = r.ev, !.S = S1],
                             n, childNodes, i + 1)

\* the while loop of topologicalSort
RECURSIVE kahnLoop(_)
kahnLoop(w) ==
    IF Len(w.S) = 0 THEN w
    ELSE LET n == w.S[Len(w.S)]
             w1 == [w EXCEPT !.S = SubSeq(w.S, 1, Len(w.S) - 1), !.L = Append(w.L, n)]
         IN kahnLoop(removeChildEdges(w1, n, getChildVertexIds(w1.sv, w1.ev, n), 1))

\* Variant of topologicalSort: L is returned without looking at the edges that remain
topologicalSort_noCycleTest(sv, ev) ==
    LET edgeInfo == getEdgeInfo(sv, ev)
        w == kahnLoop([S |-> getVerticesWithIndegree0(ev), L |-> <<>>, sv |-> sv, ev |-> ev])
    IN [result |-> w.L,
        startVertexIdArray |-> clone(edgeInfo.startVertexIdArray),
        endVertexIdArray |-> clone(edgeInfo.endVertexIdArray)]

\* Variant of topologicalSort: the edge arrays are left as Kahn's algorithm consumed them
topologicalSort_noRestore(sv, ev) ==
    LET w == kahnLoop([S |-> getVerticesWithIndegree0(ev), L |-> <<>>, sv |-> sv, ev |-> ev])
    IN [result |-> IF Len(w.sv) > 0 THEN <<>> ELSE w.L,
        startVertexIdArray |-> w.sv,
        endVertexIdArray |-> w.ev]

\* topologicalSort: the list it returns and the edge arrays it leaves behind
topologicalSort(sv, ev) ==
    LET edgeInfo == getEdgeInfo(sv, ev)
        w == kahnLoop([S |-> getVerticesWithIndegree0(ev), L |-> <<>>, sv |-> sv, ev |-> ev])
    IN [result |-> IF Len(w.sv) > 0 THEN <<>> ELSE w.L,
        startVertexIdArray |-> clone(edgeInfo.startVertexIdArray),
        endVertexIdArray |-> clone(edgeInfo.endVertexIdArray)]

\* Digraph.addVertex: the Error it throws, "none" when the vertex is added
addVertexThrown(id) ==
    IF hasVertexId(id) THEN "Duplicate Vertex ID" ELSE "none"

\* Variant of addEdge: a loop is not refused
addEdge_loopsAllowed(sv, ev, startVertexId, endVertexId) ==
    IF ~hasVertexId(startVertexId)
    THEN [sv |-> sv, ev |-> ev, thrown |-> "Start Vertex Not Found"]
    ELSE IF ~hasVertexId(endVertexId)
    THEN [sv |-> sv, ev |-> ev, thrown |-> "End Vertex Not Found"]
    ELSE IF edgeIndex(sv, ev, startVertexId, endVertexId) # 0
    THEN [sv |-> sv, ev |-> ev, thrown |-> "Edge Already Exists"]
    ELSE [sv |-> Append(sv, startVertexId), ev |-> Append(ev, endVertexId),
          thrown |-> "none"]

\* Variant of addEdge: the edge is pushed before the search for a duplicate
addEdge_pushBeforeDuplicateTest(sv, ev, startVertexId, endVertexId) ==
    IF ~hasVertexId(startVertexId)
    THEN [sv |-> sv, ev |-> ev, thrown |-> "Start Vertex Not Found"]
    ELSE IF ~hasVertexId(endVertexId)
    THEN [sv |-> sv, ev |-> ev, thrown |-> "End Vertex Not Found"]
    ELSE IF startVertexId = endVertexId
    THEN [sv |-> sv, ev |-> ev, thrown |-> "Loops Not Allowed"]
    ELSE [sv |-> Append(sv, startVertexId), ev |-> Append(ev, endVertexId),
          thrown |-> IF edgeIndex(sv, ev, startVertexId, endVertexId) # 0
                     THEN "Edge Already Exists" ELSE "none"]

\* Digraph.addEdge on the arrays (sv, ev)
addEdge(sv, ev, startVertexId, endVertexId) ==
    IF ~hasVertexId(startVertexId)
    THEN [sv |-> sv, ev |-> ev, thrown |-> "Start Vertex Not Found"]
    ELSE IF ~hasVertexId(endVertexId)
    THEN [sv |-> sv, ev |-> ev, thrown |-> "End Vertex Not Found"]
    ELSE IF startVertexId = endVertexId
    THEN [sv |-> sv, ev |-> ev, thrown |-> "Loops Not Allowed"]
    ELSE IF edgeIndex(sv, ev, startVertexId, endVertexId) # 0
    THEN [sv |-> sv, ev |-> ev, thrown |-> "Edge Already Exists"]
    ELSE [sv |-> Append(sv, startVertexId), ev |-> Append(ev, endVertexId),
          thrown |-> "none"]

\* removeVertex tests vertexIdArray.index(vertexId): a JS array has indexOf but no
\* method index, so the call throws a TypeError
arrayHasIndexMethod == FALSE

\* removeVertex: the loop that removes the edges at vertexId, from edge i down
RECURSIVE removeEdgesOfVertex(_, _, _, _)
removeEdgesOfVertex(sv, ev, vertexId, i) ==
    IF i < 1 THEN [sv |-> sv, ev |-> ev]
    ELSE IF sv[i] = vertexId \/ ev[i] = vertexId
         THEN removeEdgesOfVertex(splice1(sv, i), splice1(ev, i), vertexId, i - 1)
         ELSE removeEdgesOfVertex(sv, ev, vertexId, i - 1)

\* Digraph.removeVertex on the vertex ids and the edge arrays
removeVertex(ids, sv, ev, vertexId) ==
    IF ~arrayHasIndexMethod
    THEN [ids |-> ids, sv |-> sv, ev |-> ev, thrown |-> "TypeError"]
    ELSE IF \A i \in 1..Len(ids) : ids[i] # vertexId
    THEN [ids |-> ids, sv |-> sv, ev |-> ev, thrown |-> "Vertex Not Found"]
    ELSE LET vertexIndex == CHOOSE i \in 1..Len(ids) :
                                /\ ids[i] = vertexId
                                /\ \A j \in 1..(i - 1) : ids[j] # vertexId
             edges == removeEdgesOfVertex(sv, ev, vertexId, Len(sv))
         IN [ids |-> splice1(ids, vertexIndex), sv |-> edges.sv, ev |-> edges.ev,
             thrown |-> "none"]

-----------------------------------------------------------------------------
(* PigeonKeeper and Vertex.  The operators below work on a record pk that   *)
(* holds the fields a call may change; PK is that record in the current     *)
(* state.                                                                   *)

PK == [vertexState |-> vertexState,
       finalCallbackExecuted |-> finalCallbackExecuted,
       isCurrentlyRunning |-> isCurrentlyRunning,
       numberOfRunningProcesses |-> numberOfRunningProcesses,
       topologicalSortOrder |-> topologicalSortOrder,
       startListeners |-> startListeners,
       serviceStartCalls |-> serviceStartCalls,
       earlyStarts |-> earlyStarts,
       startedInCampaign |-> startedInCampaign,
       stateChanges |-> stateChanges,
       finalCallbackCalls |-> finalCallbackCalls,
       thrown |-> "none"]

allParentsAreSuccess(pk, id) ==
    LET parents == getParentVertexIds(startVertexIdArray, endVertexIdArray, id)
    IN \A j \in 1..Len(parents) : pk.vertexState[parents[j]] = "SUCCESS"

someParentFailed(pk, id) ==
    LET parents == getParentVertexIds(startVertexIdArray, endVertexIdArray, id)
    IN \E j \in 1..Len(parents) : pk.vertexState[parents[j]] = "FAIL"

\* the listener addVertex registers with newVertex.once(pkGuid + ":start", ...):
\* it invokes serviceStart(results)
serviceStart(pk, id) ==
    [pk EXCEPT !.serviceStartCalls[id] = @ + 1,
               !.startedInCampaign = @ \cup {id},
               !.earlyStarts = IF allParentsAreSuccess(pk, id) THEN @ ELSE @ \cup {id}]

\* self.emit(pkGuid + ":start"): a once listener is removed, then called
emitStart(pk, id) ==
    IF id \in pk.startListeners
    THEN serviceStart([pk EXCEPT !.startListeners = @ \ {id}], id)
    ELSE pk

\* Variant of Vertex.setState: the start event is emitted whether or not the
\* PigeonKeeper is running
Vertex_setState_emitsWhenStopped(pk, id, newState) ==
    IF newState \in ValidStateSet
    THEN LET p1 == [pk EXCEPT !.vertexState[id] = newState,
                              !.stateChanges = IF pk.vertexState[id] = newState THEN @
                                               ELSE @ \cup {<<pk.vertexState[id], newState>>}]
         IN IF newState = "IN_PROGRESS" THEN emitStart(p1, id) ELSE p1
    ELSE [pk EXCEPT !.thrown = "Invalid State"]

\* Vertex.setState
Vertex_setState(pk, id, newState) ==
    IF newState \in ValidStateSet
    THEN LET p1 == [pk EXCEPT !.vertexState[id] = newState,
                              !.stateChanges = IF pk.vertexState[id] = newState THEN @
                                               ELSE @ \cup {<<pk.vertexState[id], newState>>}]
         IN IF newState = "IN_PROGRESS"
            THEN IF p1.isCurrentlyRunning THEN emitStart(p1, id) ELSE p1
            ELSE p1
    ELSE [pk EXCEPT !.thrown = "Invalid State"]

\* initializeStates, from vertex i on
RECURSIVE initializeStatesFrom(_, _)
initializeStatesFrom(pk, i) ==
    IF i > vertexCount THEN pk
    ELSE initializeStatesFrom(Vertex_setState(pk, getVertexIds[i], "NOT_READY"), i + 1)

initializeStates(pk) == initializeStatesFrom(pk, 1)

\* Variant of updateStatesNumVertices: the loops run over the sorted list's length
updateStatesNumVertices_orderLength(pk) == Len(pk.topologicalSortOrder)

\* updateStates: the bound of its two loops
updateStatesNumVertices(pk) == vertexCount

\* Variant of updateStatesVertexId: the loops walk getVertexIds() instead of the sorted list
updateStatesVertexId_byVertexIds(pk, i) ==
    IF i <= vertexCount THEN getVertexIds[i] ELSE UndefinedId

\* updateStates: the id it passes to graph.getVertex in round i (i counts from 1)
updateStatesVertexId(pk, i) ==
    IF i <= Len(pk.topologicalSortOrder) THEN pk.topologicalSortOrder[i] ELSE UndefinedId

\* Variant of computeNewState: FAIL whenever not all parents are SUCCESS
computeNewState_failUnlessAllSuccess(pk, id) ==
    IF pk.vertexState[id] = "NOT_READY"
    THEN IF indegree(startVertexIdArray, endVertexIdArray, id) = 0
         THEN "READY"
         ELSE IF allParentsAreSuccess(pk, id) THEN "READY" ELSE "FAIL"
    ELSE pk.vertexState[id]

\* Variant of computeNewState: READY as soon as one parent is SUCCESS
computeNewState_anyParentSuccess(pk, id) ==
    IF pk.vertexState[id] = "NOT_READY"
    THEN IF indegree(startVertexIdArray, endVertexIdArray, id) = 0
         THEN "READY"
         ELSE IF \E i \in 1..Len(endVertexIdArray) :
                     /\ endVertexIdArray[i] = id
                     /\ pk.vertexState[startVertexIdArray[i]] = "SUCCESS"
              THEN "READY"
              ELSE IF someParentFailed(pk, id) THEN "FAIL"
              ELSE "NOT_READY"
    ELSE pk.vertexState[id]

\* Variant of computeNewState: a READY vertex is decided again, like a NOT_READY one
computeNewState_readyDecidedAgain(pk, id) ==
    IF pk.vertexState[id] \in {"NOT_READY", "READY"}
    THEN IF indegree(startVertexIdArray, endVertexIdArray, id) = 0
         THEN "READY"
         ELSE IF allParentsAreSuccess(pk, id) THEN "READY"
              ELSE IF someParentFailed(pk, id) THEN "FAIL"
              ELSE pk.vertexState[id]
    ELSE pk.vertexState[id]

\* Variant of computeNewState: a vertex without parents is READY whatever its state
computeNewState_rootsAlwaysReady(pk, id) ==
    IF indegree(startVertexIdArray, endVertexIdArray, id) = 0
    THEN "READY"
    ELSE IF pk.vertexState[id] = "NOT_READY"
    THEN IF allParentsAreSuccess(pk, id) THEN "READY"
         ELSE IF someParentFailed(pk, id) THEN "FAIL"
         ELSE "NOT_READY"
    ELSE pk.vertexState[id]

\* updateStates: the state it computes for a vertex, from the current states
computeNewState(pk, id) ==
    IF pk.vertexState[id] = "NOT_READY"
    THEN IF indegree(startVertexIdArray, endVertexIdArray, id) = 0
         THEN "READY"
         ELSE IF allParentsAreSuccess(pk, id) THEN "READY"
              ELSE IF someParentFailed(pk, id) THEN "FAIL"
              ELSE "NOT_READY"
    ELSE pk.vertexState[id]

\* updateStates: the second loop, from round i on
RECURSIVE transferNewStates(_, _, _)
transferNewStates(pk, newStates, i) ==
    IF i > Len(newStates) THEN pk
    ELSE transferNewStates(Vertex_setState(pk, updateStatesVertexId(pk, i), newStates[i]),
                           newStates, i + 1)

\* Variant of updateStates: one loop, each state is written as soon as it is computed
RECURSIVE updateStatesInOneLoopFrom(_, _)
updateStatesInOneLoopFrom(pk, i) ==
    IF i > updateStatesNumVertices(pk) THEN pk
    ELSE LET id == updateStatesVertexId(pk, i)
         IN updateStatesInOneLoopFrom(Vertex_setState(pk, id, computeNewState(pk, id)), i + 1)

updateStates_inOneLoop(pk) ==
    IF \E i \in 1..updateStatesNumVertices(pk) : getVertexThrows(updateStatesVertexId(pk, i))
    THEN [pk EXCEPT !.thrown = "Vertex Not Found"]
    ELSE updateStatesInOneLoopFrom(pk, 1)

updateStates(pk) ==
    LET numVertices == updateStatesNumVertices(pk)
    IN IF \E i \in 1..numVertices : getVertexThrows(updateStatesVertexId(pk, i))
       THEN [pk EXCEPT !.thrown = "Vertex Not Found"]
       ELSE transferNewStates(pk,
                [i \in 1..numVertices |-> computeNewState(pk, updateStatesVertexId(pk, i))], 1)

\* Variant of mayStartProcess: the cap is not looked at
mayStartProcess_noCap(pk) == TRUE

\* startReadyProcesses: may the READY vertex at hand be started?
mayStartProcess(pk) ==
    \/ maxNumberOfRunningProcesses > 0
       /\ pk.numberOfRunningProcesses < maxNumberOfRunningProcesses
    \/ maxNumberOfRunningProcesses <= 0

\* startReadyProcesses, from vertex i on
RECURSIVE startReadyProcessesFrom(_, _)
startReadyProcessesFrom(pk, i) ==
    IF i > vertexCount THEN pk
    ELSE LET id == getVertexIds[i]
             p1 == IF pk.vertexState[id] = "READY" /\ mayStartProcess(pk)
                   THEN Vertex_setState(
                            [pk EXCEPT !.numberOfRunningProcesses = @ + 1], id, "IN_PROGRESS")
                   ELSE pk
         IN startReadyProcessesFrom(p1, i + 1)

startReadyProcesses(pk) == startReadyProcessesFrom(pk, 1)

\* overallState().FAIL: the ids of the vertices in state FAIL, in the order of getVertexIds
overallStateFAIL(pk) ==
    LET f[i \in 0..vertexCount] ==
            IF i = 0 THEN <<>>
            ELSE IF pk.vertexState[getVertexIds[i]] = "FAIL"
                 THEN Append(f[i-1], getVertexIds[i]) ELSE f[i-1]
    IN f[vertexCount]

\* Variant of executeFinalCallback: finalCallbackExecuted is not tested
executeFinalCallback_unguarded(pk, name, message) ==
    [pk EXCEPT !.finalCallbackExecuted = TRUE,
               !.finalCallbackCalls =
                   Append(@, [name |-> name, message |-> message,
                              vertexState |-> pk.vertexState,
                              isRunning |-> pk.isCurrentlyRunning])]

\* if(!finalCallbackExecuted) { finalCallbackExecuted = true; finalCallback(pkError, results); }
\* name is "null" for finalCallback(null, results)
executeFinalCallback(pk, name, message) ==
    IF ~pk.finalCallbackExecuted
    THEN [pk EXCEPT !.finalCallbackExecuted = TRUE,
                    !.finalCallbackCalls =
                        Append(@, [name |-> name, message |-> message,
                                   vertexState |-> pk.vertexState,
                                   isRunning |-> pk.isCurrentlyRunning])]
    ELSE pk

\* Variant of allStatesSuccessful: true when no vertex is FAIL
allStatesSuccessful_noneFailed(pk) == \A id \in VertexIdSet : pk.vertexState[id] # "FAIL"

\* Variant of allStatesFinal: true when no vertex is IN_PROGRESS
allStatesFinal_noneInProgress(pk) == \A id \in VertexIdSet : pk.vertexState[id] # "IN_PROGRESS"

allStatesSuccessful(pk) == \A id \in VertexIdSet : pk.vertexState[id] = "SUCCESS"
someStateFailed(pk) == \E id \in VertexIdSet : pk.vertexState[id] = "FAIL"
allStatesFinal(pk) == \A id \in VertexIdSet : pk.vertexState[id] \in {"SUCCESS", "FAIL"}

\* Variant of setStateSuccess: numberOfRunningProcesses is not decremented
setStateSuccess_countKept(pk) ==
    LET p2 == updateStates(pk)
    IN IF p2.thrown # "none" THEN p2
       ELSE IF allStatesFinal(p2)
       THEN LET p3 == [p2 EXCEPT !.isCurrentlyRunning = FALSE]
            IN IF allStatesSuccessful(p2)
               THEN executeFinalCallback(p3, "null", <<>>)
               ELSE executeFinalCallback(p3, "Failed States", overallStateFAIL(p3))
       ELSE IF allStatesSuccessful(p2)
       THEN executeFinalCallback(p2, "null", <<>>)
       ELSE IF someStateFailed(p2)
       THEN IF quitOnFailure
            THEN LET p3 == [p2 EXCEPT !.isCurrentlyRunning = FALSE]
                 IN executeFinalCallback(p3, "Failed States", overallStateFAIL(p3))
            ELSE updateStates(p2)
       ELSE startReadyProcesses(p2)

\* setState, newState == "SUCCESS", after the vertex has been given its state
setStateSuccess(pk) ==
    LET p2 == updateStates([pk EXCEPT !.numberOfRunningProcesses = @ - 1])
    IN IF p2.thrown # "none" THEN p2
       ELSE IF allStatesFinal(p2)
       THEN LET p3 == [p2 EXCEPT !.isCurrentlyRunning = FALSE]
            IN IF allStatesSuccessful(p2)
               THEN executeFinalCallback(p3, "null", <<>>)
               ELSE executeFinalCallback(p3, "Failed States", overallStateFAIL(p3))
       ELSE IF allStatesSuccessful(p2)
       THEN executeFinalCallback(p2, "null", <<>>)
       ELSE IF someStateFailed(p2)
       THEN IF quitOnFailure
            THEN LET p3 == [p2 EXCEPT !.isCurrentlyRunning = FALSE]
                 IN executeFinalCallback(p3, "Failed States", overallStateFAIL(p3))
            ELSE updateStates(p2)
       ELSE startReadyProcesses(p2)

\* Variant of setStateFail: quitOnFailure is not looked at
setStateFail_neverQuits(pk, vertexId) ==
    LET p2 == updateStates([pk EXCEPT !.numberOfRunningProcesses = @ - 1])
    IN IF p2.thrown # "none" THEN p2
       ELSE LET p3 == updateStates(p2)
            IN IF p3.thrown # "none" THEN p3
               ELSE IF allStatesFinal(p2) /\ someStateFailed(p2)
               THEN executeFinalCallback(p3, "Failed States", overallStateFAIL(p3))
               ELSE p3

\* setState, newState == "FAIL", after the vertex has been given its state
setStateFail(pk, vertexId) ==
    LET p2 == updateStates([pk EXCEPT !.numberOfRunningProcesses = @ - 1])
    IN IF p2.thrown # "none" THEN p2
       ELSE IF quitOnFailure
       THEN executeFinalCallback([p2 EXCEPT !.isCurrentlyRunning = FALSE],
                                 "State Failed", vertexId)
       ELSE LET p3 == updateStates(p2)
            IN IF p3.thrown # "none" THEN p3
               ELSE IF allStatesFinal(p2) /\ someStateFailed(p2)
               THEN executeFinalCallback(p3, "Failed States", overallStateFAIL(p3))
               ELSE p3

\* Variant of setState: the new state is tested before the vertex id
setState_stateTestedFirst(pk, vertexId, newState) ==
    IF newState \notin ValidStateSet
    THEN [pk EXCEPT !.thrown = "Invalid State"]
    ELSE IF ~hasVertexId(vertexId)
    THEN [pk EXCEPT !.thrown = "Vertex Not Found"]
    ELSE LET p1 == Vertex_setState(pk, vertexId, newState)
         IN IF newState = "SUCCESS" THEN setStateSuccess(p1)
            ELSE IF newState = "FAIL" THEN setStateFail(p1, vertexId)
            ELSE p1

\* PigeonKeeper.setState
setState(pk, vertexId, newState) ==
    IF hasVertexId(vertexId)
    THEN IF newState \in ValidStateSet
         THEN LET p1 == Vertex_setState(pk, vertexId, newState)
              IN IF newState = "SUCCESS" THEN setStateSuccess(p1)
                 ELSE IF newState = "FAIL" THEN setStateFail(p1, vertexId)
                 ELSE p1
         ELSE [pk EXCEPT !.thrown = "Invalid State"]
    ELSE [pk EXCEPT !.thrown = "Vertex Not Found"]

\* addVertex registers newVertex.processSuccessful itself as the listener of the
\* service's "success"; the service's emitter calls it with the service as this
listenerThis == "service"

\* Vertex.processSuccessful, this.data = data: the data fields after it
assignThisData(vd, sd, id, data) ==
    IF listenerThis = "vertex"
    THEN [vertexData |-> [vd EXCEPT ![id] = data], serviceData |-> sd]
    ELSE [vertexData |-> vd, serviceData |-> [sd EXCEPT ![id] = data]]

\* Vertex.processSuccessful (after this.data = data) and Vertex.processFailed
processSuccessful(pk, id) == setState(pk, id, "SUCCESS")
processFailed(pk, id) == setState(pk, id, "FAIL")

\* PigeonKeeper.start, given what topologicalSort returned
start(pk, sorted) ==
    LET p1 == [pk EXCEPT !.finalCallbackExecuted = FALSE,
                         !.finalCallbackCalls = <<>>,
                         !.startedInCampaign = {},
                         !.stateChanges = {},
                         !.topologicalSortOrder = sorted,
                         !.numberOfRunningProcesses = 0,
                         !.isCurrentlyRunning = TRUE]
        p2 == updateStates(initializeStates(p1))
    IN IF p2.thrown # "none" THEN p2 ELSE startReadyProcesses(p2)

\* the state after a call that left the record p
BecomesPK(p) ==
    /\ vertexState' = p.vertexState
    /\ finalCallbackExecuted' = p.finalCallbackExecuted
    /\ isCurrentlyRunning' = p.isCurrentlyRunning
    /\ numberOfRunningProcesses' = p.numberOfRunningProcesses
    /\ topologicalSortOrder' = p.topologicalSortOrder
    /\ startListeners' = p.startListeners
    /\ serviceStartCalls' = p.serviceStartCalls
    /\ earlyStarts' = p.earlyStarts
    /\ startedInCampaign' = p.startedInCampaign
    /\ stateChanges' = p.stateChanges
    /\ finalCallbackCalls' = p.finalCallbackCalls
    /\ thrown' = p.thrown

-----------------------------------------------------------------------------
(* The state after construction: a PigeonKeeper to which addVertex was      *)
(* called for the ids 1..n and addEdge for a sequence of distinct edges.    *)

AllEdges(n) == {e \in (1..n) \X (1..n) : e[1] # e[2]}

EdgeSeqs(n) ==
    UNION {{q \in [1..k -> AllEdges(n)] : \A i, j \in 1..k : i < j => q[i] # q[j]}
           : k \in 0..MaxEdges}

Init ==
    /\ \E n \in 0..MaxVertices : \E q \in EdgeSeqs(n) :
          /\ vertexIdArray = [i \in 1..n |-> i]
          /\ startVertexIdArray = [i \in 1..Len(q) |-> q[i][1]]
          /\ endVertexIdArray = [i \in 1..Len(q) |-> q[i][2]]
          /\ vertexState = [id \in 1..n |-> "NOT_READY"]
          /\ startListeners = 1..n
          /\ successListeners = 1..n
          /\ errorListeners = 1..n
          /\ serviceStartCalls = [id \in 1..n |-> 0]
          /\ emitted = [id \in 1..n |-> {}]
          /\ vertexData = [id \in 1..n |-> EmptyData]
          /\ serviceData = [id \in 1..n |-> NoData]
    /\ quitOnFailure \in BOOLEAN
    /\ maxNumberOfRunningProcesses \in 0..MaxConcurrent
    /\ finalCallbackExecuted = FALSE
    /\ isCurrentlyRunning = FALSE
    /\ numberOfRunningProcesses = 0
    /\ topologicalSortOrder = <<>>
    /\ earlyStarts = {}
    /\ startedInCampaign = {}
    /\ stateChanges = {}
    /\ finalCallbackCalls = <<>>
    /\ pc = "constructed"
    /\ lastCall = "new"
    /\ thrown = "none"

\* pk.start(sharedData), called once
Start ==
    /\ pc = "constructed"
    /\ pc' = "started"
    /\ lastCall' = "start"
    /\ LET sorted == topologicalSort(startVertexIdArray, endVertexIdArray)
       IN /\ startVertexIdArray' = sorted.startVertexIdArray
          /\ endVertexIdArray' = sorted.endVertexIdArray
          /\ BecomesPK(start(PK, sorted.result))
    /\ UNCHANGED <<vertexIdArray, configVars, successListeners, errorListeners, emitted,
                   dataVars>>

\* A service that was started and has emitted nothing yet emits "success"
ServiceEmitsSuccess(id) ==
    /\ serviceStartCalls[id] > 0
    /\ emitted[id] = {}
    /\ emitted' = [emitted EXCEPT ![id] = @ \cup {"success"}]
    /\ lastCall' = "emit"
    /\ IF id \in successListeners
       THEN /\ successListeners' = successListeners \ {id}
            /\ vertexData' = assignThisData(vertexData, serviceData, id, Payload).vertexData
            /\ serviceData' = assignThisData(vertexData, serviceData, id, Payload).serviceData
            /\ BecomesPK(processSuccessful(PK, id))
       ELSE /\ UNCHANGED <<successListeners, dataVars>>
            /\ BecomesPK(PK)
    /\ UNCHANGED <<graphVars, configVars, errorListeners, pc>>

\* A service that was started and has emitted nothing yet emits "error"
ServiceEmitsError(id) ==
    /\ serviceStartCalls[id] > 0
    /\ emitted[id] = {}
    /\ emitted' = [emitted EXCEPT ![id] = @ \cup {"error"}]
    /\ lastCall' = "emit"
    /\ IF id \in errorListeners
       THEN /\ errorListeners' = errorListeners \ {id}
            /\ BecomesPK(processFailed(PK, id))
       ELSE /\ UNCHANGED errorListeners
            /\ BecomesPK(PK)
    /\ UNCHANGED <<graphVars, configVars, successListeners, dataVars, pc>>

-----------------------------------------------------------------------------
(* Building the graph: calls of addVertex and addEdge on a new PigeonKeeper, *)
(* and of removeEdge, removeVertex and topologicalSort on its Digraph, with  *)
(* arguments that are accepted and arguments that are refused.  Vertex ids   *)
(* are named in the order of their first addVertex.                          *)

schedulerVars == <<finalCallbackExecuted, quitOnFailure, isCurrentlyRunning,
                   maxNumberOfRunningProcesses, numberOfRunningProcesses,
                   topologicalSortOrder, earlyStarts, startedInCampaign, stateChanges,
                   finalCallbackCalls, pc>>

vertexVars == <<vertexIdArray, vertexState, startListeners, successListeners,
                errorListeners, serviceStartCalls, emitted, vertexData, serviceData>>

edgeVars == <<startVertexIdArray, endVertexIdArray>>

GraphInit ==
    /\ vertexIdArray = <<>>
    /\ startVertexIdArray = <<>>
    /\ endVertexIdArray = <<>>
    /\ vertexState = <<>>
    /\ startListeners = {}
    /\ successListeners = {}
    /\ errorListeners = {}
    /\ serviceStartCalls = <<>>
    /\ emitted = <<>>
    /\ vertexData = <<>>
    /\ serviceData = <<>>
    /\ quitOnFailure = FALSE
    /\ maxNumberOfRunningProcesses = 0
    /\ finalCallbackExecuted = FALSE
    /\ isCurrentlyRunning = FALSE
    /\ numberOfRunningProcesses = 0
    /\ topologicalSortOrder = <<>>
    /\ earlyStarts = {}
    /\ startedInCampaign = {}
    /\ stateChanges = {}
    /\ finalCallbackCalls = <<>>
    /\ pc = "constructed"
    /\ lastCall = "new"
    /\ thrown = "none"

\* pk.addVertex(id, service, serviceStart)
AddVertex(id) ==
    /\ id <= vertexCount + 1
    /\ lastCall' = "addVertex"
    /\ thrown' = addVertexThrown(id)
    /\ IF addVertexThrown(id) = "none"
       THEN /\ vertexIdArray' = Append(vertexIdArray, id)
            /\ vertexState' = [v \in VertexIdSet \cup {id} |->
                                  IF v = id THEN "NOT_READY" ELSE vertexState[v]]
            /\ startListeners' = startListeners \cup {id}
            /\ successListeners' = successListeners \cup {id}
            /\ errorListeners' = errorListeners \cup {id}
            /\ serviceStartCalls' = [v \in VertexIdSet \cup {id} |->
                                        IF v = id THEN 0 ELSE serviceStartCalls[v]]
            /\ emitted' = [v \in VertexIdSet \cup {id} |->
                              IF v = id THEN {} ELSE emitted[v]]
            /\ vertexData' = [v \in VertexIdSet \cup {id} |->
                                 IF v = id THEN EmptyData ELSE vertexData[v]]
            /\ serviceData' = [v \in VertexIdSet \cup {id} |->
                                  IF v = id THEN NoData ELSE serviceData[v]]
       ELSE UNCHANGED vertexVars
    /\ UNCHANGED <<edgeVars, schedulerVars>>

\* pk.addEdge(startVertexId, endVertexId)
AddEdge(startVertexId, endVertexId) ==
    LET r == addEdge(startVertexIdArray, endVertexIdArray, startVertexId, endVertexId)
    IN /\ Len(r.sv) <= MaxEdges
       /\ lastCall' = "addEdge"
       /\ thrown' = r.thrown
       /\ startVertexIdArray' = r.sv
       /\ endVertexIdArray' = r.ev
       /\ UNCHANGED <<vertexVars, schedulerVars>>

\* graph.removeEdge(startVertexId, endVertexId)
RemoveEdge(startVertexId, endVertexId) ==
    LET r == removeEdge(startVertexIdArray, endVertexIdArray, startVertexId, endVertexId)
    IN /\ lastCall' = "removeEdge"
       /\ thrown' = IF r.threw THEN "Edge Doesn't Exist" ELSE "none"
       /\ startVertexIdArray' = r.sv
       /\ endVertexIdArray' = r.ev
       /\ UNCHANGED <<vertexVars, schedulerVars>>

\* graph.removeVertex(vertexId)
RemoveVertex(vertexId) ==
    LET r == removeVertex(vertexIdArray, startVertexIdArray, endVertexIdArray, vertexId)
        left == {r.ids[i] : i \in 1..Len(r.ids)}
    IN /\ lastCall' = "removeVertex"
       /\ thrown' = r.thrown
       /\ vertexIdArray' = r.ids
       /\ startVertexIdArray' = r.sv
       /\ endVertexIdArray' = r.ev
       /\ vertexState' = [v \in left |-> vertexState[v]]
       /\ vertexData' = [v \in left |-> vertexData[v]]
       /\ UNCHANGED <<startListeners, successListeners, errorListeners,
                      serviceStartCalls, emitted, serviceData, schedulerVars>>

\* graph.topologicalSort()
TopologicalSortCall ==
    LET sorted == topologicalSort(startVertexIdArray, endVertexIdArray)
    IN /\ lastCall' = "topologicalSort"
       /\ thrown' = "none"
       /\ startVertexIdArray' = sorted.startVertexIdArray
       /\ endVertexIdArray' = sorted.endVertexIdArray
       /\ UNCHANGED <<vertexVars, schedulerVars>>

GraphNext ==
    \/ \E id \in 1..MaxVertices : AddVertex(id)
    \/ \E s, e \in 1..MaxVertices : AddEdge(s, e)
    \/ \E s, e \in 1..MaxVertices : RemoveEdge(s, e)
    \/ \E id \in 1..MaxVertices : RemoveVertex(id)
    \/ TopologicalSortCall

GraphSpec == GraphInit /\ [][GraphNext]_vars

-----------------------------------------------------------------------------
(* Propagation and dispatch by themselves: updateStates and                 *)
(* startReadyProcesses applied, in any order and any number of times, to a  *)
(* running PigeonKeeper whose vertices hold any assignment of the five      *)
(* states.  Every edge goes from a vertex to one added later, so the graph  *)
(* is acyclic, and the edges were added in increasing order.  A vertex that *)
(* is IN_PROGRESS or SUCCESS has had its service started, one that is       *)
(* SUCCESS has emitted "success", and the IN_PROGRESS vertices are the      *)
(* running processes, no more of them than a positive cap allows.           *)

ForwardEdges(n) == {e \in AllEdges(n) : e[1] < e[2]}

SortedEdgeSeqs(n) ==
    UNION {{q \in [1..k -> ForwardEdges(n)] :
                \A i, j \in 1..k :
                    i < j => \/ q[i][1] < q[j][1]
                             \/ q[i][1] = q[j][1] /\ q[i][2] < q[j][2]}
           : k \in 0..MaxEdges}

PropInitRunning(running) ==
    /\ \E n \in 0..MaxVertices : \E q \in SortedEdgeSeqs(n) :
          /\ vertexIdArray = [i \in 1..n |-> i]
          /\ startVertexIdArray = [i \in 1..Len(q) |-> q[i][1]]
          /\ endVertexIdArray = [i \in 1..Len(q) |-> q[i][2]]
          /\ vertexState \in [1..n -> ValidStateSet]
          /\ successListeners = 1..n
          /\ errorListeners = 1..n
    /\ topologicalSortOrder = topologicalSort(startVertexIdArray, endVertexIdArray).result
    /\ startListeners = {id \in VertexIdSet : vertexState[id] \in {"NOT_READY", "READY"}}
    /\ serviceStartCalls = [id \in VertexIdSet |->
                               IF vertexState[id] \in {"IN_PROGRESS", "SUCCESS"} THEN 1 ELSE 0]
    /\ emitted = [id \in VertexIdSet |->
                     IF vertexState[id] = "SUCCESS" THEN {"success"} ELSE {}]
    /\ vertexData = [id \in VertexIdSet |-> EmptyData]
    /\ serviceData = [id \in VertexIdSet |->
                         IF vertexState[id] = "SUCCESS" THEN Payload ELSE NoData]
    /\ startedInCampaign = {id \in VertexIdSet : serviceStartCalls[id] = 1}
    /\ stateChanges = {}
    /\ numberOfRunningProcesses =
           Cardinality({id \in VertexIdSet : vertexState[id] = "IN_PROGRESS"})
    /\ maxNumberOfRunningProcesses \in 0..MaxConcurrent
    /\ maxNumberOfRunningProcesses > 0
          => numberOfRunningProcesses <= maxNumberOfRunningProcesses
    /\ quitOnFailure = FALSE
    /\ finalCallbackExecuted = FALSE
    /\ isCurrentlyRunning = running
    /\ earlyStarts = {}
    /\ finalCallbackCalls = <<>>
    /\ pc = "started"
    /\ lastCall = "start"
    /\ thrown = "none"

PropInit == PropInitRunning(TRUE)

\* updateStates()
UpdateStatesCall ==
    /\ pc = "started"
    /\ lastCall' = "updateStates"
    /\ BecomesPK(updateStates(PK))
    /\ UNCHANGED <<vertexIdArray, startVertexIdArray, endVertexIdArray, quitOnFailure,
                   maxNumberOfRunningProcesses, successListeners, errorListeners,
                   emitted, dataVars, pc>>

\* startReadyProcesses()
StartReadyProcessesCall ==
    /\ pc = "started"
    /\ lastCall' = "startReadyProcesses"
    /\ BecomesPK(startReadyProcesses(PK))
    /\ UNCHANGED <<vertexIdArray, startVertexIdArray, endVertexIdArray, quitOnFailure,
                   maxNumberOfRunningProcesses, successListeners, errorListeners,
                   emitted, dataVars, pc>>

PropNext ==
    \/ UpdateStatesCall
    \/ StartReadyProcessesCall

PropSpec == PropInit /\ [][PropNext]_vars

-----------------------------------------------------------------------------
(* Calls of pk.setState that it refuses, on a running PigeonKeeper whose    *)
(* vertices hold any assignment of the five states: the id is not a vertex, *)
(* or the new state is not one of VALID_STATES.                             *)

InvalidState == "BOGUS"

\* the arguments tried: the first vertex and an id that is never a vertex, a
\* valid state and one that is not
SetStateIds == {1, MaxVertices + 1}

SetStateStates == {"SUCCESS", InvalidState}

\* pk.setState(vertexId, newState) with arguments it refuses
SetStateCall(vertexId, newState) ==
    /\ ~hasVertexId(vertexId) \/ newState \notin ValidStateSet
    /\ lastCall' = "setState"
    /\ BecomesPK(setState(PK, vertexId, newState))
    /\ UNCHANGED <<vertexIdArray, startVertexIdArray, endVertexIdArray, quitOnFailure,
                   maxNumberOfRunningProcesses, successListeners, errorListeners,
                   emitted, dataVars, pc>>

SetStateNext ==
    \E vertexId \in SetStateIds : \E newState \in SetStateStates :
        SetStateCall(vertexId, newState)

SetStateSpec == PropInit /\ [][SetStateNext]_vars

-----------------------------------------------------------------------------
(* Propagation and dispatch on a PigeonKeeper that is running or has        *)
(* stopped running (isCurrentlyRunning false, as after the final callback). *)

WakeInit == \E running \in BOOLEAN : PropInitRunning(running)

WakeSpec == WakeInit /\ [][PropNext]_vars

Next ==
    \/ Start
    \/ \E id \in VertexIdSet : ServiceEmitsSuccess(id)
    \/ \E id \in VertexIdSet : ServiceEmitsError(id)

Spec == Init /\ [][Next]_vars

-----------------------------------------------------------------------------
(* A second campaign: start is called again after finalCallback was called. *)

\* pk.start(sharedData), called again after the final callback
Restart ==
    /\ pc = "started"
    /\ finalCallbackExecuted
    /\ lastCall' = "start"
    /\ LET sorted == topologicalSort(startVertexIdArray, endVertexIdArray)
       IN /\ startVertexIdArray' = sorted.startVertexIdArray
          /\ endVertexIdArray' = sorted.endVertexIdArray
          /\ BecomesPK(start(PK, sorted.result))
    /\ UNCHANGED <<vertexIdArray, configVars, successListeners, errorListeners, emitted,
                   dataVars, pc>>

RestartNext ==
    \/ Next
    \/ Restart

RestartSpec == Init /\ [][RestartNext]_vars

-----------------------------------------------------------------------------
(* Deeper graphs: up to one vertex more than Init has and one edge fewer   *)
(* than vertices, every edge from a vertex to one added later, the edges    *)
(* added in increasing order.  The chain of MaxVertices + 1 vertices is one *)
(* of these graphs.                                                         *)

DeepInit ==
    /\ \E n \in 1..(MaxVertices + 1) :
          \E q \in {sq \in [1..(n - 1) -> AllEdges(n)] :
                        /\ \A i \in 1..(n - 1) : sq[i][1] < sq[i][2]
                        /\ \A i, j \in 1..(n - 1) :
                              i < j => \/ sq[i][1] < sq[j][1]
                                       \/ sq[i][1] = sq[j][1] /\ sq[i][2] < sq[j][2]} :
             /\ vertexIdArray = [i \in 1..n |-> i]
             /\ startVertexIdArray = [i \in 1..Len(q) |-> q[i][1]]
             /\ endVertexIdArray = [i \in 1..Len(q) |-> q[i][2]]
             /\ vertexState = [id \in 1..n |-> "NOT_READY"]
             /\ startListeners = 1..n
             /\ successListeners = 1..n
             /\ errorListeners = 1..n
             /\ serviceStartCalls = [id \in 1..n |-> 0]
             /\ emitted = [id \in 1..n |-> {}]
             /\ vertexData = [id \in 1..n |-> EmptyData]
             /\ serviceData = [id \in 1..n |-> NoData]
    /\ quitOnFailure \in BOOLEAN
    /\ maxNumberOfRunningProcesses \in 0..MaxConcurrent
    /\ finalCallbackExecuted = FALSE
    /\ isCurrentlyRunning = FALSE
    /\ numberOfRunningProcesses = 0
    /\ topologicalSortOrder = <<>>
    /\ earlyStarts = {}
    /\ startedInCampaign = {}
    /\ stateChanges = {}
    /\ finalCallbackCalls = <<>>
    /\ pc = "constructed"
    /\ lastCall = "new"
    /\ thrown = "none"

DeepSpec == DeepInit /\ [][Next]_vars

-----------------------------------------------------------------------------
(* A service that breaks the protocol: after "error" it emits "success",    *)
(* after "success" it emits "error".                                        *)

\* A service that has emitted "error" emits "success"
ServiceEmitsSuccessAfterError(id) ==
    /\ serviceStartCalls[id] > 0
    /\ emitted[id] = {"error"}
    /\ emitted' = [emitted EXCEPT ![id] = @ \cup {"success"}]
    /\ lastCall' = "emit"
    /\ IF id \in successListeners
       THEN /\ successListeners' = successListeners \ {id}
            /\ vertexData' = assignThisData(vertexData, serviceData, id, Payload).vertexData
            /\ serviceData' = assignThisData(vertexData, serviceData, id, Payload).serviceData
            /\ BecomesPK(processSuccessful(PK, id))
       ELSE /\ UNCHANGED <<successListeners, dataVars>>
            /\ BecomesPK(PK)
    /\ UNCHANGED <<graphVars, configVars, errorListeners, pc>>

\* A service that has emitted "success" emits "error"
ServiceEmitsErrorAfterSuccess(id) ==
    /\ serviceStartCalls[id] > 0
    /\ emitted[id] = {"success"}
    /\ emitted' = [emitted EXCEPT ![id] = @ \cup {"error"}]
    /\ lastCall' = "emit"
    /\ IF id \in errorListeners
       THEN /\ errorListeners' = errorListeners \ {id}
            /\ BecomesPK(processFailed(PK, id))
       ELSE /\ UNCHANGED errorListeners
            /\ BecomesPK(PK)
    /\ UNCHANGED <<graphVars, configVars, successListeners, dataVars, pc>>

ProtocolNext ==
    \/ Next
    \/ \E id \in VertexIdSet : ServiceEmitsSuccessAfterError(id)
    \/ \E id \in VertexIdSet : ServiceEmitsErrorAfterSuccess(id)

ProtocolSpec == Init /\ [][ProtocolNext]_vars

-----------------------------------------------------------------------------
(* Services that emit from inside their start function, as GenericService   *)
(* does: doStuff calls onServiceSuccess or onServiceError, which emit       *)
(* "success" or "error" before doStuff returns.  The listener of the event  *)
(* calls PigeonKeeper.setState, so setState, updateStates and               *)
(* startReadyProcesses run inside the call of Vertex.setState that          *)
(* startReadyProcesses made, and the loop of startReadyProcesses goes on    *)
(* when they have returned.  The operators below are those of the           *)
(* PigeonKeeper above with this nesting; the record pk holds in addition    *)
(* the services' listeners, what was emitted, the data fields, and the      *)
(* lowest and highest value numberOfRunningProcesses has had.  svc holds    *)
(* GenericService's SERVICE_ALWAYS_FAILS and BAD_SERVICE_ID.                 *)

SyncPK == PK @@ [successListeners |-> successListeners,
                 errorListeners |-> errorListeners,
                 emitted |-> emitted,
                 vertexData |-> vertexData,
                 serviceData |-> serviceData,
                 runningLow |-> numberOfRunningProcesses,
                 runningHigh |-> numberOfRunningProcesses]

\* numberOfRunningProcesses++ and numberOfRunningProcesses--, the extremes recorded
addRunning(pk, d) ==
    LET k == pk.numberOfRunningProcesses + d
    IN [pk EXCEPT !.numberOfRunningProcesses = k,
                  !.runningLow = IF k < @ THEN k ELSE @,
                  !.runningHigh = IF k > @ THEN k ELSE @]

RECURSIVE setStateSync(_, _, _, _)
RECURSIVE Vertex_setStateSync(_, _, _, _)

\* GenericService.onServiceSuccess: self.emit("success", data); the once
\* listener is removed, then Vertex.processSuccessful runs
onServiceSuccess(pk, id, svc) ==
    LET p1 == [pk EXCEPT !.emitted[id] = @ \cup {"success"}]
    IN IF id \in p1.successListeners
       THEN LET d == assignThisData(p1.vertexData, p1.serviceData, id, Payload)
            IN setStateSync([p1 EXCEPT !.successListeners = @ \ {id},
                                       !.vertexData = d.vertexData,
                                       !.serviceData = d.serviceData],
                            id, "SUCCESS", svc)
       ELSE p1

\* GenericService.onServiceError: self.emit("error", err); the once listener
\* is removed, then Vertex.processFailed runs
onServiceError(pk, id, svc) ==
    LET p1 == [pk EXCEPT !.emitted[id] = @ \cup {"error"}]
    IN IF id \in p1.errorListeners
       THEN setStateSync([p1 EXCEPT !.errorListeners = @ \ {id}], id, "FAIL", svc)
       ELSE p1

\* GenericService.doStuff
doStuff(pk, id, svc) ==
    IF svc.SERVICE_ALWAYS_FAILS
    THEN onServiceError(pk, id, svc)
    ELSE IF id # svc.BAD_SERVICE_ID
         THEN onServiceSuccess(pk, id, svc)
         ELSE onServiceError(pk, id, svc)

\* the start listener of addVertex, with serviceStart == service.doStuff
serviceStartSync(pk, id, svc) == doStuff(serviceStart(pk, id), id, svc)

\* self.emit(pkGuid + ":start")
emitStartSync(pk, id, svc) ==
    IF id \in pk.startListeners
    THEN serviceStartSync([pk EXCEPT !.startListeners = @ \ {id}], id, svc)
    ELSE pk

\* Vertex.setState
Vertex_setStateSync(pk, id, newState, svc) ==
    IF newState \in ValidStateSet
    THEN LET p1 == [pk EXCEPT !.vertexState[id] = newState,
                              !.stateChanges = IF pk.vertexState[id] = newState THEN @
                                               ELSE @ \cup {<<pk.vertexState[id], newState>>}]
         IN IF newState = "IN_PROGRESS"
            THEN IF p1.isCurrentlyRunning THEN emitStartSync(p1, id, svc) ELSE p1
            ELSE p1
    ELSE [pk EXCEPT !.thrown = "Invalid State"]

\* updateStates: the second loop, from round i on
RECURSIVE transferNewStatesSync(_, _, _, _)
transferNewStatesSync(pk, newStates, i, svc) ==
    IF i > Len(newStates) \/ pk.thrown # "none" THEN pk
    ELSE transferNewStatesSync(
             Vertex_setStateSync(pk, updateStatesVertexId(pk, i), newStates[i], svc),
             newStates, i + 1, svc)

updateStatesSync(pk, svc) ==
    LET numVertices == updateStatesNumVertices(pk)
    IN IF \E i \in 1..numVertices : getVertexThrows(updateStatesVertexId(pk, i))
       THEN [pk EXCEPT !.thrown = "Vertex Not Found"]
       ELSE transferNewStatesSync(pk,
                [i \in 1..numVertices |-> computeNewState(pk, updateStatesVertexId(pk, i))],
                1, svc)

\* startReadyProcesses, from vertex i on
RECURSIVE startReadyProcessesFromSync(_, _, _)
startReadyProcessesFromSync(pk, i, svc) ==
    IF i > vertexCount \/ pk.thrown # "none" THEN pk
    ELSE LET id == getVertexIds[i]
             p1 == IF pk.vertexState[id] = "READY" /\ mayStartProcess(pk)
                   THEN Vertex_setStateSync(addRunning(pk, 1), id, "IN_PROGRESS", svc)
                   ELSE pk
         IN startReadyProcessesFromSync(p1, i + 1, svc)

startReadyProcessesSync(pk, svc) == startReadyProcessesFromSync(pk, 1, svc)

\* setState, newState == "SUCCESS", after the vertex has been given its state
setStateSuccessSync(pk, svc) ==
    LET p2 == updateStatesSync(addRunning(pk, -1), svc)
    IN IF p2.thrown # "none" THEN p2
       ELSE IF allStatesFinal(p2)
       THEN LET p3 == [p2 EXCEPT !.isCurrentlyRunning = FALSE]
            IN IF allStatesSuccessful(p2)
               THEN executeFinalCallback(p3, "null", <<>>)
               ELSE executeFinalCallback(p3, "Failed States", overallStateFAIL(p3))
       ELSE IF allStatesSuccessful(p2)
       THEN executeFinalCallback(p2, "null", <<>>)
       ELSE IF someStateFailed(p2)
       THEN IF quitOnFailure
            THEN LET p3 == [p2 EXCEPT !.isCurrentlyRunning = FALSE]
                 IN executeFinalCallback(p3, "Failed States", overallStateFAIL(p3))
            ELSE updateStatesSync(p2, svc)
       ELSE startReadyProcessesSync(p2, svc)

\* setState, newState == "FAIL", after the vertex has been given its state
setStateFailSync(pk, vertexId, svc) ==
    LET p2 == updateStatesSync(addRunning(pk, -1), svc)
    IN IF p2.thrown # "none" THEN p2
       ELSE IF quitOnFailure
       THEN executeFinalCallback([p2 EXCEPT !.isCurrentlyRunning = FALSE],
                                 "State Failed", vertexId)
       ELSE LET p3 == updateStatesSync(p2, svc)
            IN IF p3.thrown # "none" THEN p3
               ELSE IF allStatesFinal(p2) /\ someStateFailed(p2)
               THEN executeFinalCallback(p3, "Failed States", overallStateFAIL(p3))
               ELSE p3

\* PigeonKeeper.setState
setStateSync(pk, vertexId, newState, svc) ==
    IF hasVertexId(vertexId)
    THEN IF newState \in ValidStateSet
         THEN LET p1 == Vertex_setStateSync(pk, vertexId, newState, svc)
              IN IF p1.thrown # "none" THEN p1
                 ELSE IF newState = "SUCCESS" THEN setStateSuccessSync(p1, svc)
                 ELSE IF newState = "FAIL" THEN setStateFailSync(p1, vertexId, svc)
                 ELSE p1
         ELSE [pk EXCEPT !.thrown = "Invalid State"]
    ELSE [pk EXCEPT !.thrown = "Vertex Not Found"]

\* PigeonKeeper.start, given what topologicalSort returned
startSync(pk, sorted, svc) ==
    LET p1 == [pk EXCEPT !.finalCallbackExecuted = FALSE,
                         !.finalCallbackCalls = <<>>,
                         !.startedInCampaign = {},
                         !.stateChanges = {},
                         !.topologicalSortOrder = sorted,
                         !.numberOfRunningProcesses = 0,
                         !.runningLow = 0,
                         !.runningHigh = 0,
                         !.isCurrentlyRunning = TRUE]
        p2 == updateStatesSync(initializeStates(p1), svc)
    IN IF p2.thrown # "none" THEN p2 ELSE startReadyProcessesSync(p2, svc)

\* The state after construction: addVertex was called for the ids 1..n with
\* GenericServices, addEdge for a set of edges in increasing order.
DirectedEdgeSeqs(n) ==
    UNION {{q \in [1..k -> AllEdges(n)] :
                \A i, j \in 1..k :
                    i < j => \/ q[i][1] < q[j][1]
                             \/ q[i][1] = q[j][1] /\ q[i][2] < q[j][2]}
           : k \in 0..MaxEdges}

SyncInit ==
    /\ \E n \in 0..MaxVertices : \E q \in DirectedEdgeSeqs(n) :
          /\ vertexIdArray = [i \in 1..n |-> i]
          /\ startVertexIdArray = [i \in 1..Len(q) |-> q[i][1]]
          /\ endVertexIdArray = [i \in 1..Len(q) |-> q[i][2]]
          /\ vertexState = [id \in 1..n |-> "NOT_READY"]
          /\ startListeners = 1..n
          /\ successListeners = 1..n
          /\ errorListeners = 1..n
          /\ serviceStartCalls = [id \in 1..n |-> 0]
          /\ emitted = [id \in 1..n |-> {}]
          /\ vertexData = [id \in 1..n |-> EmptyData]
          /\ serviceData = [id \in 1..n |-> NoData]
    /\ quitOnFailure \in BOOLEAN
    /\ maxNumberOfRunningProcesses \in 0..MaxConcurrent
    /\ finalCallbackExecuted = FALSE
    /\ isCurrentlyRunning = FALSE
    /\ numberOfRunningProcesses = 0
    /\ topologicalSortOrder = <<>>
    /\ earlyStarts = {}
    /\ startedInCampaign = {}
    /\ stateChanges = {}
    /\ finalCallbackCalls = <<>>
    /\ pc = "constructed"
    /\ lastCall = "new"
    /\ thrown = "none"

\* the values GenericService's SERVICE_ALWAYS_FAILS and BAD_SERVICE_ID may be
\* given; UndefinedId stands for an id no service has
ServiceSettings ==
    [SERVICE_ALWAYS_FAILS : BOOLEAN, BAD_SERVICE_ID : {UndefinedId} \cup VertexIdSet]

\* what pk.start(sharedData) leaves when the services are GenericServices
startSyncResult(svc) ==
    startSync(SyncPK, topologicalSort(startVertexIdArray, endVertexIdArray).result, svc)

\* pk.start(sharedData), called once, the services being GenericServices
StartSynchronous(svc) ==
    /\ pc = "constructed"
    /\ pc' = "started"
    /\ lastCall' = "start"
    /\ LET sorted == topologicalSort(startVertexIdArray, endVertexIdArray)
           p == startSyncResult(svc)
       IN /\ startVertexIdArray' = sorted.startVertexIdArray
          /\ endVertexIdArray' = sorted.endVertexIdArray
          /\ BecomesPK(p)
          /\ successListeners' = p.successListeners
          /\ errorListeners' = p.errorListeners
          /\ emitted' = p.emitted
          /\ vertexData' = p.vertexData
          /\ serviceData' = p.serviceData
    /\ UNCHANGED <<vertexIdArray, configVars>>

SyncNext == \E svc \in ServiceSettings : StartSynchronous(svc)

SyncSpec == SyncInit /\ [][SyncNext]_vars

-----------------------------------------------------------------------------
(* Notions the properties below are stated with *)

EdgeSet == {<<startVertexIdArray[i], endVertexIdArray[i]>> : i \in 1..Len(startVertexIdArray)}

RECURSIVE ReachableFrom(_)
ReachableFrom(S) ==
    LET T == S \cup {e[2] : e \in {d \in EdgeSet : d[1] \in S}}
    IN IF T = S THEN S ELSE ReachableFrom(T)

Descendants(id) == ReachableFrom({e[2] : e \in {d \in EdgeSet : d[1] = id}})

Ancestors(id) == {a \in VertexIdSet : id \in Descendants(a)}

ParentSet(id) == {e[1] : e \in {d \in EdgeSet : d[2] = id}}

HasCycle == \E id \in VertexIdSet : id \in Descendants(id)

\* every service that was started has emitted its outcome: no event is outstanding
AllStartedReported == \A id \in VertexIdSet : serviceStartCalls[id] > 0 => emitted[id] # {}

FailSetOf(states) == {id \in VertexIdSet : states[id] = "FAIL"}

SeqRange(q) == {q[i] : i \in 1..Len(q)}

-----------------------------------------------------------------------------
(* Properties *)

\* C1: between a call of start and the next one, finalCallback is invoked at most
\* once, whatever the graph, the cap, the failure policy and the order in which the
\* services emit, events emitted after termination included.
C1_CallbackAtMostOnce == Len(finalCallbackCalls) <= 1

\* C1 witness: finalCallback was invoked, and a service that was still IN_PROGRESS
\* at that moment has emitted its event since.
C1_Witness ==
    /\ Len(finalCallbackCalls) = 1
    /\ \E id \in VertexIdSet :
          /\ finalCallbackCalls[1].vertexState[id] = "IN_PROGRESS"
          /\ emitted[id] # {}

\* C2 (as claimed): on an acyclic graph, once start has returned and every started
\* service has emitted its outcome, finalCallback has been invoked exactly once.
C2_CallbackOnceAllReported ==
    (pc = "started" /\ ~HasCycle /\ AllStartedReported) => Len(finalCallbackCalls) = 1

\* C3: a vertex that is READY or IN_PROGRESS has all its parents in SUCCESS, and
\* no serviceStart was invoked while a parent of its vertex was not SUCCESS.
C3_ReadyAndInProgressHaveSuccessParents ==
    /\ \A id \in VertexIdSet :
          vertexState[id] \in {"READY", "IN_PROGRESS"}
              => \A parent \in ParentSet(id) : vertexState[parent] = "SUCCESS"
    /\ earlyStarts = {}

\* C3 witness: a vertex that has a parent is IN_PROGRESS and its service was started.
C3_Witness ==
    \E id \in VertexIdSet :
        /\ ParentSet(id) # {}
        /\ vertexState[id] = "IN_PROGRESS"
        /\ serviceStartCalls[id] = 1

\* C4: with a cap above 0, numberOfRunningProcesses stays within 0..cap.
C4_RunningWithinCap ==
    maxNumberOfRunningProcesses > 0
        => /\ 0 <= numberOfRunningProcesses
           /\ numberOfRunningProcesses <= maxNumberOfRunningProcesses

\* C4 witness: the cap is reached while another vertex is READY and waits.
C4_Witness ==
    /\ maxNumberOfRunningProcesses > 0
    /\ numberOfRunningProcesses = maxNumberOfRunningProcesses
    /\ \E id \in VertexIdSet : vertexState[id] = "READY"

\* C5: with quitOnFailure, the step in which the first service emits "error"
\* invokes finalCallback with State Failed and the id of that vertex and leaves
\* the PigeonKeeper not running; after that no serviceStart is invoked, the
\* PigeonKeeper stays not running, and no later event invokes finalCallback again.
C5_QuitOnFirstFailure ==
    [][quitOnFailure =>
        /\ \A id \in VertexIdSet :
              ( /\ \A other \in VertexIdSet : "error" \notin emitted[other]
                /\ "error" \in emitted'[id] )
              => /\ Len(finalCallbackCalls') = 1
                 /\ finalCallbackCalls'[1].name = "State Failed"
                 /\ finalCallbackCalls'[1].message = id
                 /\ ~finalCallbackCalls'[1].isRunning
                 /\ ~isCurrentlyRunning'
        /\ (\E id \in VertexIdSet : "error" \in emitted[id])
              => /\ finalCallbackCalls' = finalCallbackCalls
                 /\ serviceStartCalls' = serviceStartCalls
                 /\ ~isCurrentlyRunning'
    ]_vars

\* C5 witness: quitOnFailure, finalCallback got State Failed, and a service that
\* was IN_PROGRESS at that moment has emitted its late event.
C5_Witness ==
    /\ quitOnFailure
    /\ Len(finalCallbackCalls) = 1
    /\ finalCallbackCalls[1].name = "State Failed"
    /\ \E id \in VertexIdSet :
          /\ finalCallbackCalls[1].vertexState[id] = "IN_PROGRESS"
          /\ emitted[id] # {}

\* C6: without quitOnFailure, at every invocation of finalCallback every vertex is
\* SUCCESS or FAIL; if some vertex is FAIL the error is Failed States and its
\* message lists, once each, exactly the vertices that are FAIL, which are the
\* vertices whose service emitted "error" and all their descendants.
C6_FailedStatesListsAllFailed ==
    ~quitOnFailure =>
        \A k \in 1..Len(finalCallbackCalls) :
            LET call == finalCallbackCalls[k]
                failed == FailSetOf(call.vertexState)
                errored == {id \in VertexIdSet : "error" \in emitted[id]}
            IN /\ \A id \in VertexIdSet : call.vertexState[id] \in {"SUCCESS", "FAIL"}
               /\ failed # {} =>
                     /\ call.name = "Failed States"
                     /\ SeqRange(call.message) = failed
                     /\ Len(call.message) = Cardinality(failed)
                     /\ failed = errored \cup UNION {Descendants(id) : id \in errored}

\* C6 witness: without quitOnFailure, finalCallback got Failed States listing a
\* failed vertex and a descendant of it.
C6_Witness ==
    /\ ~quitOnFailure
    /\ Len(finalCallbackCalls) = 1
    /\ finalCallbackCalls[1].name = "Failed States"
    /\ \E id \in VertexIdSet :
          /\ "error" \in emitted[id]
          /\ Descendants(id) # {}
          /\ Descendants(id) \subseteq SeqRange(finalCallbackCalls[1].message)

\* C7 (as claimed): without quitOnFailure, once every started service has emitted
\* its outcome, the service of every vertex that has no FAIL ancestor was started.
C7_IndependentBranchesStarted ==
    (~quitOnFailure /\ pc = "started" /\ ~HasCycle /\ AllStartedReported)
        => \A id \in VertexIdSet :
              (\A a \in Ancestors(id) : vertexState[a] # "FAIL") => serviceStartCalls[id] > 0

\* C8: finalCallback gets a null error only when every vertex is SUCCESS, and an
\* error only when some vertex is FAIL.
C8_ErrorIffSomeFail ==
    \A k \in 1..Len(finalCallbackCalls) :
        LET call == finalCallbackCalls[k]
        IN /\ call.name = "null"
                => \A id \in VertexIdSet : call.vertexState[id] = "SUCCESS"
           /\ call.name # "null"
                => \E id \in VertexIdSet : call.vertexState[id] = "FAIL"

\* C8 witness: finalCallback got an error while a vertex was neither SUCCESS nor FAIL.
C8_Witness ==
    /\ Len(finalCallbackCalls) = 1
    /\ finalCallbackCalls[1].name # "null"
    /\ \E id \in VertexIdSet :
          finalCallbackCalls[1].vertexState[id] \notin {"SUCCESS", "FAIL"}

\* C9: on a graph with a cycle no serviceStart is ever invoked and no vertex is
\* ever IN_PROGRESS, the roots outside the cycle included.
C9_CycleStartsNothing ==
    HasCycle => \A id \in VertexIdSet :
                    /\ serviceStartCalls[id] = 0
                    /\ vertexState[id] # "IN_PROGRESS"

\* C9 witness: start was called on a graph with a cycle and a root outside it.
C9_Witness ==
    /\ pc = "started"
    /\ HasCycle
    /\ \E id \in VertexIdSet : ParentSet(id) = {} /\ id \notin Descendants(id)

\* C10: start called on a graph with a cycle throws to its caller.
C10_StartOnCycleThrows ==
    (pc = "started" /\ HasCycle) => thrown # "none"

\* C10 witness: start was called on a graph with a cycle and threw Vertex Not Found.
C10_Witness ==
    /\ pc = "started"
    /\ HasCycle
    /\ thrown = "Vertex Not Found"
    /\ topologicalSortOrder = <<>>

\* C11: the list start gets from topologicalSort is empty exactly when the graph
\* has a cycle or no vertex; otherwise it holds every vertex once, and the start
\* of every edge before its end.
C11_TopologicalSortResult ==
    pc = "started" =>
        LET L == topologicalSortOrder
            pos(id) == CHOOSE i \in 1..Len(L) : L[i] = id
        IN /\ (L = <<>>) <=> (HasCycle \/ vertexCount = 0)
           /\ L # <<>> =>
                 /\ Len(L) = vertexCount
                 /\ SeqRange(L) = VertexIdSet
                 /\ \A e \in EdgeSet : pos(e[1]) < pos(e[2])

\* C11 witness: a sorted list of three vertices for a graph with two edges or more.
C11_Witness ==
    /\ pc = "started"
    /\ Len(topologicalSortOrder) = 3
    /\ Cardinality(EdgeSet) >= 2

\* C13: a vertex that is FAIL and whose service was never started has an ancestor
\* that is FAIL.
C13_UnstartedFailHasFailedAncestor ==
    \A id \in VertexIdSet :
        (vertexState[id] = "FAIL" /\ serviceStartCalls[id] = 0)
            => \E a \in Ancestors(id) : vertexState[a] = "FAIL"

\* C13 witness: a vertex is FAIL though its service was never started.
C13_Witness ==
    \E id \in VertexIdSet : vertexState[id] = "FAIL" /\ serviceStartCalls[id] = 0

\* C12: a call of topologicalSort leaves the edge arrays, the vertex ids and the
\* vertex states as they were, on graphs with and without a cycle.
C12_TopologicalSortNonDestructive ==
    [][lastCall' = "topologicalSort" =>
          /\ startVertexIdArray' = startVertexIdArray
          /\ endVertexIdArray' = endVertexIdArray
          /\ vertexIdArray' = vertexIdArray
          /\ vertexState' = vertexState]_vars

\* C12 witness: topologicalSort was called on a graph that has a cycle and an
\* edge outside it, and the edges are all there.
C12_Witness ==
    /\ lastCall = "topologicalSort"
    /\ HasCycle
    /\ \E e \in EdgeSet : e[1] \notin Descendants(e[1])
    /\ Len(startVertexIdArray) = 3

\* C19: every edge joins two different vertices of the graph, and no pair
\* (start, end) is stored twice.
C19_EdgesWellFormed ==
    /\ Len(startVertexIdArray) = Len(endVertexIdArray)
    /\ \A i \in 1..Len(startVertexIdArray) :
          /\ hasVertexId(startVertexIdArray[i])
          /\ hasVertexId(endVertexIdArray[i])
          /\ startVertexIdArray[i] # endVertexIdArray[i]
          /\ \A j \in 1..Len(startVertexIdArray) :
                (/\ startVertexIdArray[i] = startVertexIdArray[j]
                 /\ endVertexIdArray[i] = endVertexIdArray[j]) => i = j

\* C19 witness: a graph with edges on which a refused addEdge, a removeEdge or a
\* removeVertex was the last call.
C19_Witness ==
    /\ Len(startVertexIdArray) >= 2
    /\ \/ lastCall = "addEdge" /\ thrown # "none"
       \/ lastCall = "removeVertex"

\* what addEdge(s, e) must be refused with in the current graph; {} when it is
\* to be accepted
AddEdgeRefusals(s, e) ==
    IF ~hasVertexId(s) \/ ~hasVertexId(e)
    THEN {"Start Vertex Not Found", "End Vertex Not Found"}
    ELSE IF s = e THEN {"Loops Not Allowed"}
    ELSE IF <<s, e>> \in EdgeSet THEN {"Edge Already Exists"}
    ELSE {}

\* C20: in every graph that the calls build, addVertex of a present id throws
\* "Duplicate Vertex ID"; addEdge throws "... Vertex Not Found" when an end is
\* absent, else "Loops Not Allowed" when the ends are equal, else "Edge Already
\* Exists" when the edge is present; removeEdge of an absent edge throws "Edge
\* Doesn't Exist"; each leaves the edge arrays as they are.  And every call that
\* throws one of these leaves the vertex ids, the vertex states and the edges
\* as they were before the call.
C20_RefusedCallsChangeNothing ==
    /\ [](/\ \A id \in VertexIdSet : addVertexThrown(id) = "Duplicate Vertex ID"
          /\ \A s, e \in 1..MaxVertices :
                LET r == addEdge(startVertexIdArray, endVertexIdArray, s, e)
                IN AddEdgeRefusals(s, e) # {} =>
                      /\ r.thrown \in AddEdgeRefusals(s, e)
                      /\ r.sv = startVertexIdArray
                      /\ r.ev = endVertexIdArray
          /\ \A s, e \in 1..MaxVertices :
                LET r == removeEdge(startVertexIdArray, endVertexIdArray, s, e)
                IN <<s, e>> \notin EdgeSet =>
                      /\ r.threw
                      /\ r.sv = startVertexIdArray
                      /\ r.ev = endVertexIdArray)
    /\ [][(lastCall' \in {"addVertex", "addEdge", "removeEdge"} /\ thrown' # "none") =>
             /\ UNCHANGED <<vertexVars, edgeVars>>
             /\ lastCall' = "addVertex" => thrown' = "Duplicate Vertex ID"
             /\ lastCall' = "addEdge" =>
                    thrown' \in {"Start Vertex Not Found", "End Vertex Not Found",
                                 "Loops Not Allowed", "Edge Already Exists"}
             /\ lastCall' = "removeEdge" => thrown' = "Edge Doesn't Exist"
       ]_vars

\* C20 witness: addEdge of an edge that is already there was refused, on a graph
\* with two edges.
C20_Witness ==
    /\ lastCall = "addEdge"
    /\ thrown = "Edge Already Exists"
    /\ Len(startVertexIdArray) = 2

\* no vertex that is NOT_READY has a parent that is NOT_READY
NoNotReadyBelowNotReady ==
    \A e \in EdgeSet : ~(vertexState[e[1]] = "NOT_READY" /\ vertexState[e[2]] = "NOT_READY")

VerticesIn(s) == {id \in VertexIdSet : vertexState[id] = s}

\* C15: a call of startReadyProcesses moves only READY vertices, and those to
\* IN_PROGRESS; it adds one to numberOfRunningProcesses per vertex moved; it
\* moves every READY vertex when the cap is <= 0 and exactly
\* min(#READY, cap - running) of them when the cap is > 0; and a second call
\* right after it changes no vertex state and no count.
C15_DispatchMovesReadyWithinCap ==
    [][lastCall' = "startReadyProcesses" =>
          LET ready == VerticesIn("READY")
              moved == {id \in ready : vertexState'[id] = "IN_PROGRESS"}
              room == maxNumberOfRunningProcesses - numberOfRunningProcesses
              again == startReadyProcesses(PK')
          IN /\ \A id \in VertexIdSet \ moved : vertexState'[id] = vertexState[id]
             /\ numberOfRunningProcesses' = numberOfRunningProcesses + Cardinality(moved)
             /\ maxNumberOfRunningProcesses <= 0 => moved = ready
             /\ maxNumberOfRunningProcesses > 0 =>
                    Cardinality(moved) =
                        IF Cardinality(ready) < room THEN Cardinality(ready) ELSE room
             /\ again.vertexState = vertexState'
             /\ again.numberOfRunningProcesses = numberOfRunningProcesses'
    ]_vars

\* C15 witness: startReadyProcesses was called under a positive cap; it has
\* started a vertex, the cap is reached and a READY vertex is left waiting.
C15_Witness ==
    /\ lastCall = "startReadyProcesses"
    /\ maxNumberOfRunningProcesses > 0
    /\ numberOfRunningProcesses = maxNumberOfRunningProcesses
    /\ VerticesIn("READY") # {}
    /\ \E id \in VerticesIn("IN_PROGRESS") : id \notin startListeners /\ serviceStartCalls[id] = 1
    /\ VerticesIn("NOT_READY") # {}

\* C16 as stated: in every campaign, the first and one begun by calling start
\* again after the final callback, a vertex that is IN_PROGRESS has had its
\* serviceStart invoked in that campaign.
C16_StartFnInvokedInEachCampaign ==
    \A id \in VertexIdSet : vertexState[id] = "IN_PROGRESS" => id \in startedInCampaign

\* C17 as stated: when a service that has emitted one of "success" and "error"
\* emits the other one, no vertex state changes, numberOfRunningProcesses and
\* isCurrentlyRunning stay as they are and finalCallback is not called.
C17_SecondEventIgnored ==
    [][(\E id \in VertexIdSet : emitted[id] # {} /\ emitted'[id] # emitted[id])
          => UNCHANGED <<vertexState, numberOfRunningProcesses, isCurrentlyRunning,
                         finalCallbackExecuted, finalCallbackCalls>>]_vars

\* C18: a call of setState with an id that is not a vertex throws "Vertex Not
\* Found", one with the id of a vertex and a state outside VALID_STATES throws
\* "Invalid State"; neither changes a vertex state, numberOfRunningProcesses,
\* isCurrentlyRunning or finalCallbackExecuted, nor calls finalCallback.
C18_RefusedSetStateChangesNothing ==
    [][\A vertexId \in SetStateIds : \A newState \in SetStateStates :
          SetStateCall(vertexId, newState) =>
              /\ thrown' = IF ~hasVertexId(vertexId) THEN "Vertex Not Found"
                           ELSE "Invalid State"
              /\ UNCHANGED <<vertexState, numberOfRunningProcesses, isCurrentlyRunning,
                             finalCallbackExecuted, finalCallbackCalls>>
    ]_vars

\* C18 witness: setState has refused an invalid state for a vertex while a
\* process was running and another vertex was waiting.
C18_Witness ==
    /\ lastCall = "setState"
    /\ thrown = "Invalid State"
    /\ numberOfRunningProcesses > 0
    /\ \E id \in VertexIdSet : vertexState[id] = "NOT_READY"

\* C21 as stated: removeVertex of a vertex of the graph succeeds; it takes the
\* vertex out, leaves no edge at it, and leaves the other vertices and the
\* other edges, so that after addVertex(id), addEdge calls at id and
\* removeVertex(id) the vertex count and the edge count are what they were.
C21_RemoveVertexSucceeds ==
    [][\A id \in VertexIdSet :
          RemoveVertex(id) =>
              /\ thrown' = "none"
              /\ Len(vertexIdArray') = Len(vertexIdArray) - 1
              /\ \A i \in 1..Len(vertexIdArray') : vertexIdArray'[i] # id
              /\ \A i \in 1..Len(startVertexIdArray') :
                    startVertexIdArray'[i] # id /\ endVertexIdArray'[i] # id
              /\ Len(startVertexIdArray') =
                    Cardinality({i \in 1..Len(startVertexIdArray) :
                                    startVertexIdArray[i] # id /\ endVertexIdArray[i] # id})
    ]_vars

\* C22: in every graph that the calls build and for every pair (s, e) that
\* addEdge accepts there, addEdge(s, e) succeeds and removeEdge(s, e) after it
\* succeeds and leaves the two edge arrays, hence the edge count, the edges and
\* their order, as they were before addEdge.
C22_AddEdgeThenRemoveEdgeRestores ==
    \A s, e \in 1..MaxVertices :
        AddEdgeRefusals(s, e) = {} =>
            LET added == addEdge(startVertexIdArray, endVertexIdArray, s, e)
                removed == removeEdge(added.sv, added.ev, s, e)
            IN /\ added.thrown = "none"
               /\ Len(added.sv) = Len(startVertexIdArray) + 1
               /\ ~removed.threw
               /\ removed.sv = startVertexIdArray
               /\ removed.ev = endVertexIdArray

\* C22 witness: removeEdge has just removed an edge from a graph that keeps two
\* edges with a common start vertex, and addEdge would accept a further pair.
C22_Witness ==
    /\ lastCall = "removeEdge"
    /\ thrown = "none"
    /\ Len(startVertexIdArray) = 2
    /\ startVertexIdArray[1] = startVertexIdArray[2]
    /\ \E s, e \in 1..MaxVertices : AddEdgeRefusals(s, e) = {} /\ e = startVertexIdArray[1]

\* the state that the rules of propagation give the vertex id, from the states
\* the vertices hold now
StateByRule(id) ==
    IF vertexState[id] # "NOT_READY" THEN vertexState[id]
    ELSE IF ParentSet(id) = {} THEN "READY"
    ELSE IF \A p \in ParentSet(id) : vertexState[p] = "SUCCESS" THEN "READY"
    ELSE IF \E p \in ParentSet(id) : vertexState[p] = "FAIL" THEN "FAIL"
    ELSE "NOT_READY"

\* C23: a call of updateStates gives every vertex the state that the rules give
\* it from the states held before the call: its own state if that is not
\* NOT_READY, else READY without parents or with all parents SUCCESS, else FAIL
\* with a FAIL parent, else NOT_READY.  No state written in the call is read in it.
C23_UpdateStatesFromSnapshot ==
    [][lastCall' = "updateStates" =>
          \A id \in VertexIdSet : vertexState'[id] = StateByRule(id)]_vars

\* C23 witness: updateStates has turned a vertex to FAIL below a FAIL parent and
\* has left that vertex's NOT_READY child, which the rules now turn to FAIL.
C23_Witness ==
    /\ lastCall = "updateStates"
    /\ \E e, f \in EdgeSet :
          /\ e[2] = f[1]
          /\ vertexState[e[1]] = "FAIL"
          /\ vertexState[f[1]] = "FAIL" /\ serviceStartCalls[f[1]] = 0
          /\ vertexState[f[2]] = "NOT_READY"
          /\ StateByRule(f[2]) = "FAIL"

\* C24 as stated: with quitOnFailure false, when the "error" of the service of a
\* vertex has been processed, every descendant of that vertex is FAIL.
C24_FailReachesAllDescendants ==
    [][\A v \in VertexIdSet :
          (~quitOnFailure /\ ServiceEmitsError(v))
              => \A d \in Descendants(v) : vertexState'[d] = "FAIL"]_vars

\* C25 as stated: with quitOnFailure false, when the "error" of a service has
\* been processed and every vertex is then SUCCESS or FAIL, finalCallback has
\* been called with a "Failed States" error.
C25_CallbackWhenFailEventEndsAllFinal ==
    [][\A v \in VertexIdSet :
          (/\ ~quitOnFailure
           /\ ServiceEmitsError(v)
           /\ \A id \in VertexIdSet : vertexState'[id] \in {"SUCCESS", "FAIL"})
              => /\ finalCallbackExecuted'
                 /\ Len(finalCallbackCalls') = 1
                 /\ finalCallbackCalls'[1].name = "Failed States"]_vars

\* C30 as stated: whenever finalCallback has been called in the campaign,
\* isCurrentlyRunning is false.
C30_NotRunningAfterCallback ==
    finalCallbackExecuted => ~isCurrentlyRunning

\* C26: serviceStart of a vertex is invoked only in a call made while
\* isCurrentlyRunning is true, and then once, for a vertex the call leaves
\* IN_PROGRESS; a call of startReadyProcesses made while it is false moves the
\* READY vertices it may start to IN_PROGRESS all the same, and invokes no
\* serviceStart.
C26_StartOnlyWhileRunning ==
    [][/\ \A id \in VertexIdSet :
             serviceStartCalls'[id] # serviceStartCalls[id] =>
                 /\ isCurrentlyRunning
                 /\ serviceStartCalls'[id] = serviceStartCalls[id] + 1
                 /\ vertexState'[id] = "IN_PROGRESS"
       /\ (~isCurrentlyRunning /\ lastCall' = "startReadyProcesses") =>
             /\ serviceStartCalls' = serviceStartCalls
             /\ startListeners' = startListeners
             /\ maxNumberOfRunningProcesses <= 0 =>
                    \A id \in VerticesIn("READY") : vertexState'[id] = "IN_PROGRESS"
             /\ Cardinality({id \in VerticesIn("READY") : vertexState'[id] = "IN_PROGRESS"})
                    = numberOfRunningProcesses' - numberOfRunningProcesses
    ]_vars

\* C26 witness: startReadyProcesses was called while isCurrentlyRunning was
\* false; a vertex is IN_PROGRESS, its start listener is still registered and
\* its serviceStart was never invoked.
C26_Witness ==
    /\ lastCall = "startReadyProcesses"
    /\ ~isCurrentlyRunning
    /\ \E id \in VerticesIn("IN_PROGRESS") :
          id \in startListeners /\ serviceStartCalls[id] = 0

\* C27 as stated: when the "success" of the service of a vertex is processed,
\* the data emitted is in the data field of that vertex; when an "error" is
\* processed, the data field of the vertex is unchanged.
C27_SuccessDataStoredInVertex ==
    [][\A id \in VertexIdSet :
          /\ (ServiceEmitsSuccess(id) /\ id \in successListeners)
                => vertexData'[id] = Payload
          /\ ServiceEmitsError(id) => vertexData'[id] = vertexData[id]]_vars

\* C28: in every state of a campaign in which each started service emits one
\* event, numberOfRunningProcesses is the number of IN_PROGRESS vertices.
C28_RunningCountIsInProgressCount ==
    numberOfRunningProcesses = Cardinality(VerticesIn("IN_PROGRESS"))

\* C28 witness: a process has ended, two are running and a vertex waits.
C28_Witness ==
    /\ numberOfRunningProcesses = 2
    /\ VerticesIn("SUCCESS") # {}
    /\ lastCall = "emit"

\* C29: in a campaign in which each started service emits one event, every
\* change of a vertex state is one of NOT_READY -> READY, NOT_READY -> FAIL,
\* READY -> IN_PROGRESS, IN_PROGRESS -> SUCCESS, IN_PROGRESS -> FAIL; so no
\* vertex leaves SUCCESS or FAIL and none enters IN_PROGRESS twice.
C29_OnlyForwardStateChanges ==
    stateChanges \subseteq {<<"NOT_READY", "READY">>, <<"NOT_READY", "FAIL">>,
                            <<"READY", "IN_PROGRESS">>, <<"IN_PROGRESS", "SUCCESS">>,
                            <<"IN_PROGRESS", "FAIL">>}

\* C29 witness: a campaign in which the five changes have all been made.
C29_Witness ==
    /\ Cardinality(stateChanges) = 5
    /\ pc = "started"

\* C31 as stated: when every service emits its outcome from inside its start
\* function, then for every non-empty acyclic graph, every cap and both
\* failure policies, when start returns finalCallback has been called exactly
\* once, numberOfRunningProcesses has stayed within 0..cap during the call
\* when the cap is positive, and no service was started for a vertex with a
\* parent that was not SUCCESS.
C31_SynchronousCampaignCompletes ==
    [][\A svc \in ServiceSettings :
          (StartSynchronous(svc) /\ vertexCount > 0 /\ ~HasCycle)
             => LET p == startSyncResult(svc)
                IN /\ Len(p.finalCallbackCalls) = 1
                   /\ maxNumberOfRunningProcesses > 0
                         => /\ p.runningLow >= 0
                            /\ p.runningHigh <= maxNumberOfRunningProcesses
                   /\ p.earlyStarts = {}]_vars

====
